---- MODULE Spec2Model ----
(***************************************************************************)
(* Model of the podcast-subscription backend (src/pods/src/main.rs):       *)
(* the shared AppState (current_user + InMemoryStore) behind one async     *)
(* mutex, and the request handlers add_user, get_user, login, user_status  *)
(* and subscribe_to_podcast.                                               *)
(*                                                                         *)
(* Strings that carry a feed URL are sequences of lexical tokens           *)
(* ("http://", a host, "/", a path segment, a "#..." fragment, a space);   *)
(* two strings are equal iff their token sequences are equal.              *)
(* Option<T> is a sequence of length 0 (None) or 1 (Some).                 *)
(* Result<T, E> is a record [ok, val] or [ok, err].                        *)
(***************************************************************************)
EXTENDS Naturals, Sequences, FiniteSets, TLC

VARIABLES current_user, db, uuid, mutex, task, last

vars == <<current_user, db, uuid, mutex, task, last>>

(* --------------------------- bounds and inputs ------------------------ *)

\* Number of identifiers Uuid::new_v4 hands out in one run. The variable
\* uuid counts them: the n-th identifier drawn is n, so every draw is fresh.
MaxUuid == 3

\* Request-handling tasks that may be inside subscribe_to_podcast at once.
Tasks == {"t1", "t2"}

\* Display names carried by POST /users.
Names == {"ada", "bob"}

\* Feed URL strings carried by POST /podcast: one that Uri prints back as
\* submitted, one with no path (printed back with "/"), one Uri rejects.
FeedA  == <<"http://", "a", "/", "f">>
FeedB  == <<"http://", "a">>
BadSp  == <<"http://", "a", "/", " ">>

RssStrings == {FeedA, FeedB, BadSp}

\* Uuids a client may put in a path: every generated one and one never generated.
Uuids == 1..(MaxUuid + 1)

(* --------------------------- Option / Result -------------------------- *)

None == <<>>
Some(x) == <<x>>
IsSome(o) == Len(o) = 1
Unwrap(o) == o[1]

Ok(v) == [ok |-> TRUE, val |-> v]
Err(e) == [ok |-> FALSE, err |-> e]

(* ------------------------ http::Uri (from_str, to_string) ------------- *)

SchemeToks == {"http://"}
FragToks == {"#x"}
InvalidToks == {" "}

RECURSIVE UpToFragment(_)
\* The path-and-query part of a string: everything before the first fragment.
UpToFragment(s) ==
    IF s = <<>> THEN <<>>
    ELSE IF Head(s) \in FragToks THEN <<>>
    ELSE <<Head(s)>> \o UpToFragment(Tail(s))

HasInvalid(s) == \E i \in 1..Len(s) : s[i] \in InvalidToks

\* Uri::from_str: Err on the empty string and on an invalid character;
\* a string starting with "/" is a path only; a string starting with a
\* scheme needs an authority after it; anything else is an authority alone.
UriFromStr(s) ==
    IF s = <<>> THEN Err("InvalidUri")
    ELSE IF HasInvalid(UpToFragment(s)) THEN Err("InvalidUri")
    ELSE IF Head(s) = "/" THEN
        Ok([scheme |-> None, authority |-> None, path |-> UpToFragment(s)])
    ELSE IF Head(s) \in SchemeToks THEN
        IF Len(s) < 2 \/ s[2] = "/" \/ s[2] \in FragToks THEN Err("InvalidUri")
        ELSE Ok([scheme |-> Some(Head(s)), authority |-> Some(s[2]),
                 path |-> UpToFragment(SubSeq(s, 3, Len(s)))])
    ELSE IF Len(s) > 1 THEN Err("InvalidUri")
    ELSE Ok([scheme |-> None, authority |-> Some(Head(s)), path |-> <<>>])

\* Uri::path: "/" for an empty path when a scheme is present.
UriPath(u) ==
    IF u.path = <<>> /\ IsSome(u.scheme) THEN <<"/">> ELSE u.path

\* Uri's Display: scheme, authority, path; the fragment is not kept.
UriToString(u) ==
    (IF IsSome(u.scheme) THEN <<Unwrap(u.scheme)>> ELSE <<>>)
    \o (IF IsSome(u.authority) THEN <<Unwrap(u.authority)>> ELSE <<>>)
    \o UriPath(u)

(* ------------------------------ InMemoryStore ------------------------- *)

NewStore == [users |-> <<>>, podcasts |-> <<>>]

\* HashMap::insert: the new value replaces any value under the key.
Insert(m, k, v) == (k :> v) @@ m

get_user(store, id) ==
    IF id \in DOMAIN store.users THEN Ok(store.users[id]) ELSE Err("NotFound")

\* A variant of create_user that keys the user by the nil Uuid, not a fresh one.
create_user_nil_uuid(store, name, id) ==
    LET u == [name |-> name, id |-> 1, subscribed |-> <<>>]
    IN <<[store EXCEPT !.users = Insert(store.users, 1, u)], Ok(u)>>

\* Returns <<store', Result<User>>>; id is the Uuid::new_v4 drawn.
create_user(store, name, id) ==
    LET u == [name |-> name, id |-> id, subscribed |-> <<>>]
    IN <<[store EXCEPT !.users = Insert(store.users, id, u)], Ok(u)>>

get_podcast(store, rss) ==
    IF rss \in DOMAIN store.podcasts THEN Ok(store.podcasts[rss]) ELSE Err("NotFound")

\* A variant of create_podcast that inserts the record under its title.
create_podcast_under_title(store, rss, title, description, id) ==
    LET p == [rss |-> rss, name |-> title, description |-> description, id |-> id]
    IN <<[store EXCEPT !.podcasts = Insert(store.podcasts, <<title>>, p)], Ok(p)>>

\* A variant of create_podcast that keeps the record a key already holds.
create_podcast_keeps_first(store, rss, title, description, id) ==
    LET p == [rss |-> rss, name |-> title, description |-> description, id |-> id]
    IN IF rss \in DOMAIN store.podcasts
       THEN <<store, Ok(store.podcasts[rss])>>
       ELSE <<[store EXCEPT !.podcasts = Insert(store.podcasts, rss, p)], Ok(p)>>

\* Returns <<store', Result<PodcastChannel>>>; id is the Uuid::new_v4 drawn.
create_podcast(store, rss, title, description, id) ==
    LET p == [rss |-> rss, name |-> title, description |-> description, id |-> id]
    IN <<[store EXCEPT !.podcasts = Insert(store.podcasts, rss, p)], Ok(p)>>

Contains(seq, x) == \E i \in 1..Len(seq) : seq[i] = x

\* A variant of subscribe that pushes without the contains test.
subscribe_always_push(store, user, rss) ==
    LET p == get_podcast(store, rss)
    IN IF ~p.ok THEN <<store, Err(p.err)>>
       ELSE IF user \notin DOMAIN store.users THEN <<store, Err("NotFound")>>
       ELSE LET subs == Append(store.users[user].subscribed, p.val.rss)
            IN <<[store EXCEPT !.users[user].subscribed = subs], Ok(subs)>>

\* A variant of subscribe that puts a new entry at the front of the list.
subscribe_pushes_front(store, user, rss) ==
    LET p == get_podcast(store, rss)
    IN IF ~p.ok THEN <<store, Err(p.err)>>
       ELSE IF user \notin DOMAIN store.users THEN <<store, Err("NotFound")>>
       ELSE LET u == store.users[user]
                subs == IF Contains(u.subscribed, p.val.rss) THEN u.subscribed
                        ELSE <<p.val.rss>> \o u.subscribed
            IN <<[store EXCEPT !.users[user].subscribed = subs], Ok(subs)>>

\* A variant of subscribe that returns the list as it was before the push.
subscribe_returns_stale(store, user, rss) ==
    LET p == get_podcast(store, rss)
    IN IF ~p.ok THEN <<store, Err(p.err)>>
       ELSE IF user \notin DOMAIN store.users THEN <<store, Err("NotFound")>>
       ELSE LET u == store.users[user]
                subs == IF Contains(u.subscribed, p.val.rss) THEN u.subscribed
                        ELSE Append(u.subscribed, p.val.rss)
            IN <<[store EXCEPT !.users[user].subscribed = subs], Ok(u.subscribed)>>

\* Returns <<store', Result<Vec<String>>>>.
subscribe(store, user, rss) ==
    LET p == get_podcast(store, rss)
    IN IF ~p.ok THEN <<store, Err(p.err)>>
       ELSE IF user \notin DOMAIN store.users THEN <<store, Err("NotFound")>>
       ELSE LET u == store.users[user]
                subs == IF Contains(u.subscribed, p.val.rss) THEN u.subscribed
                        ELSE Append(u.subscribed, p.val.rss)
            IN <<[store EXCEPT !.users[user].subscribed = subs], Ok(subs)>>

(* ------------------------------ parse_rss ----------------------------- *)

Titles == {"Example Cast"}
Descriptions == {"A show."}

Document(t, d) ==
    [transport |-> TRUE, wellformed |-> TRUE, rss |-> TRUE, channel |-> TRUE,
     title |-> t, description |-> d]

\* What the network may answer to reqwest::get: a transport failure, or a
\* body that is malformed, lacks rss, channel, title or description (or their
\* text), or is a complete feed.
Remote ==
    {[Document(None, None) EXCEPT !.transport = FALSE],
     [Document(None, None) EXCEPT !.wellformed = FALSE],
     [Document(None, None) EXCEPT !.rss = FALSE],
     [Document(None, None) EXCEPT !.channel = FALSE]}
    \cup {Document(None, Some(d)) : d \in Descriptions}
    \cup {Document(Some(t), None) : t \in Titles}
    \cup {Document(Some(t), Some(d)) : t \in Titles, d \in Descriptions}

Returned(v) == [panic |-> FALSE, val |-> v]
Panicked(why) == [panic |-> TRUE, why |-> why]

\* A variant of parse_rss that takes a missing description as empty text.
parse_rss_lenient(resp) ==
    IF ~resp.transport THEN Panicked("transport")
    ELSE IF ~resp.wellformed THEN Panicked("xml")
    ELSE IF ~resp.rss THEN Panicked("rss")
    ELSE IF ~resp.channel THEN Panicked("channel")
    ELSE IF ~IsSome(resp.title) THEN Panicked("title")
    ELSE IF ~IsSome(resp.description) THEN Returned(<<Unwrap(resp.title), "">>)
    ELSE Returned(<<Unwrap(resp.title), Unwrap(resp.description)>>)

\* parse_rss has no error result: every failing step is an unwrap().
parse_rss(resp) ==
    IF ~resp.transport THEN Panicked("transport")
    ELSE IF ~resp.wellformed THEN Panicked("xml")
    ELSE IF ~resp.rss THEN Panicked("rss")
    ELSE IF ~resp.channel THEN Panicked("channel")
    ELSE IF ~IsSome(resp.title) THEN Panicked("title")
    ELSE IF ~IsSome(resp.description) THEN Panicked("description")
    ELSE Returned(<<Unwrap(resp.title), Unwrap(resp.description)>>)

(* ------------------------------ handlers ------------------------------ *)

Idle == [pc |-> "idle", rss |-> <<>>, url |-> None, logged_in |-> None]

\* What the last completed request gave its client (status and Json body),
\* with what the handler read and did on the way: the submitted string, the
\* session it read, whether it called reqwest::get, the podcast it held and
\* whether the subscriber's list already contained it; for add_user the
\* name it was given.
NoRequest ==
    [handler |-> "none", status |-> "none", arg |-> None, rss |-> <<>>,
     caller |-> None, fetched |-> FALSE, p |-> None, had |-> FALSE,
     subs |-> None, created |-> None, user |-> None, logged_in |-> FALSE,
     name |-> ""]

Init ==
    /\ current_user = None
    /\ db = NewStore
    /\ uuid = 0
    /\ mutex = None
    /\ task = [t \in Tasks |-> Idle]
    /\ last = NoRequest

\* A variant of add_user that also makes the created user the current user.
add_user_logs_in(name) ==
    /\ mutex = None
    /\ uuid < MaxUuid
    /\ LET r == create_user(db, name, uuid + 1)
       IN /\ db' = r[1]
          /\ current_user' = Some(r[2].val.id)
          /\ last' = [NoRequest EXCEPT !.handler = "add_user", !.status = "CREATED",
                                       !.name = name, !.created = Some(r[2].val)]
    /\ uuid' = uuid + 1
    /\ UNCHANGED <<mutex, task>>

\* POST /users
add_user(name) ==
    /\ mutex = None
    /\ uuid < MaxUuid
    /\ LET r == create_user(db, name, uuid + 1)
       IN /\ db' = r[1]
          /\ last' = [NoRequest EXCEPT !.handler = "add_user", !.status = "CREATED",
                                       !.name = name, !.created = Some(r[2].val)]
    /\ uuid' = uuid + 1
    /\ UNCHANGED <<current_user, mutex, task>>

\* A variant of login that clears the session when the id is unknown.
login_clears_on_failure(uid) ==
    /\ mutex = None
    /\ LET x == get_user(db, uid)
       IN IF x.ok
          THEN /\ current_user' = Some(x.val.id)
               /\ last' = [NoRequest EXCEPT !.handler = "login", !.status = "OK",
                                            !.arg = Some(uid)]
          ELSE /\ current_user' = None
               /\ last' = [NoRequest EXCEPT !.handler = "login", !.status = "NOT_EXTENDED",
                                            !.arg = Some(uid)]
    /\ UNCHANGED <<db, uuid, mutex, task>>

\* A variant of login that keeps a session that is already open.
login_keeps_open_session(uid) ==
    /\ mutex = None
    /\ LET x == get_user(db, uid)
       IN IF x.ok
          THEN /\ current_user' = IF IsSome(current_user) THEN current_user
                                  ELSE Some(x.val.id)
               /\ last' = [NoRequest EXCEPT !.handler = "login", !.status = "OK",
                                            !.arg = Some(uid)]
          ELSE /\ current_user' = current_user
               /\ last' = [NoRequest EXCEPT !.handler = "login", !.status = "NOT_EXTENDED",
                                            !.arg = Some(uid)]
    /\ UNCHANGED <<db, uuid, mutex, task>>

\* A variant of login that sets the session to the id before looking it up.
login_sets_before_lookup(uid) ==
    /\ mutex = None
    /\ LET x == get_user(db, uid)
       IN /\ current_user' = Some(uid)
          /\ last' = [NoRequest EXCEPT !.handler = "login",
                                       !.status = IF x.ok THEN "OK" ELSE "NOT_EXTENDED",
                                       !.arg = Some(uid)]
    /\ UNCHANGED <<db, uuid, mutex, task>>

\* A variant of login that reads and writes the state without taking the lock.
login_without_lock(uid) ==
    /\ LET x == get_user(db, uid)
       IN IF x.ok
          THEN /\ current_user' = Some(x.val.id)
               /\ last' = [NoRequest EXCEPT !.handler = "login", !.status = "OK",
                                            !.arg = Some(uid)]
          ELSE /\ current_user' = current_user
               /\ last' = [NoRequest EXCEPT !.handler = "login", !.status = "NOT_EXTENDED",
                                            !.arg = Some(uid)]
    /\ UNCHANGED <<db, uuid, mutex, task>>

\* POST /login/:id
login(uid) ==
    /\ mutex = None
    /\ LET x == get_user(db, uid)
       IN IF x.ok
          THEN /\ current_user' = Some(x.val.id)
               /\ last' = [NoRequest EXCEPT !.handler = "login", !.status = "OK",
                                            !.arg = Some(uid)]
          ELSE /\ current_user' = current_user
               /\ last' = [NoRequest EXCEPT !.handler = "login", !.status = "NOT_EXTENDED",
                                            !.arg = Some(uid)]
    /\ UNCHANGED <<db, uuid, mutex, task>>

\* GET /login
user_status ==
    /\ mutex = None
    /\ last' = IF IsSome(current_user)
               THEN [NoRequest EXCEPT !.handler = "user_status", !.status = "OK",
                                      !.user = Some(Unwrap(current_user)),
                                      !.logged_in = TRUE]
               ELSE [NoRequest EXCEPT !.handler = "user_status", !.status = "OK",
                                      !.user = None, !.logged_in = FALSE]
    /\ UNCHANGED <<current_user, db, uuid, mutex, task>>

\* The tail both branches of subscribe_to_podcast share once they hold a
\* podcast p: subscribe the logged-in user, or answer NOT_FOUND.
\* Returns <<store', status, body>>.
SubscribeLoggedIn(store, logged_in, p) ==
    IF IsSome(logged_in)
    THEN LET subs == subscribe(store, Unwrap(logged_in), p.rss)
         IN IF subs[2].ok THEN <<subs[1], "CREATED", Some(subs[2].val)>>
            ELSE <<subs[1], "BAD_REQUEST", None>>
    ELSE <<store, "NOT_FOUND", None>>

\* u.subscribed.contains(&p.rss), as the subscriber's list stood before the call.
Had(store, logged_in, p) ==
    /\ IsSome(logged_in)
    /\ Unwrap(logged_in) \in DOMAIN store.users
    /\ Contains(store.users[Unwrap(logged_in)].subscribed, p.rss)

SubscribeResponse(rss, logged_in, status, body, fetched, p, had) ==
    [NoRequest EXCEPT !.handler = "subscribe_to_podcast", !.status = status,
                      !.subs = body, !.rss = rss, !.caller = logged_in,
                      !.fetched = fetched, !.p = p, !.had = had]

\* POST /podcast, up to the lock: Uri::from_str on the submitted string.
subscribe_to_podcast(t, rss) ==
    /\ task[t].pc = "idle"
    /\ LET url == UriFromStr(rss)
       IN IF url.ok
          THEN /\ task' = [task EXCEPT ![t] = [Idle EXCEPT !.pc = "lock", !.rss = rss,
                                                           !.url = Some(url.val)]]
               /\ UNCHANGED last
          ELSE /\ last' = SubscribeResponse(rss, None, "BAD_REQUEST", None, FALSE,
                                            None, FALSE)
               /\ UNCHANGED task
    /\ UNCHANGED <<current_user, db, uuid, mutex>>

\* A variant of subscribe_locked that lets go of the lock before the fetch.
subscribe_locked_released(t) ==
    /\ task[t].pc = "lock"
    /\ mutex = None
    /\ LET logged_in == current_user
           found == get_podcast(db, task[t].rss)
       IN IF found.ok
          THEN LET r == SubscribeLoggedIn(db, logged_in, found.val)
               IN /\ db' = r[1]
                  /\ last' = SubscribeResponse(task[t].rss, logged_in, r[2], r[3], FALSE,
                                               Some(found.val),
                                               Had(db, logged_in, found.val))
                  /\ task' = [task EXCEPT ![t] = Idle]
                  /\ UNCHANGED mutex
          ELSE /\ mutex' = None
               /\ task' = [task EXCEPT ![t].pc = "fetch", ![t].logged_in = logged_in]
               /\ UNCHANGED <<db, last>>
    /\ UNCHANGED <<current_user, uuid>>

\* state.lock().await, then get_podcast on the submitted string: a known
\* podcast is answered at once, an unknown one starts the fetch with the
\* lock held.
subscribe_locked(t) ==
    /\ task[t].pc = "lock"
    /\ mutex = None
    /\ LET logged_in == current_user
           found == get_podcast(db, task[t].rss)
       IN IF found.ok
          THEN LET r == SubscribeLoggedIn(db, logged_in, found.val)
               IN /\ db' = r[1]
                  /\ last' = SubscribeResponse(task[t].rss, logged_in, r[2], r[3], FALSE,
                                               Some(found.val),
                                               Had(db, logged_in, found.val))
                  /\ task' = [task EXCEPT ![t] = Idle]
                  /\ UNCHANGED mutex
          ELSE /\ mutex' = Some(t)
               /\ task' = [task EXCEPT ![t].pc = "fetch", ![t].logged_in = logged_in]
               /\ UNCHANGED <<db, last>>
    /\ UNCHANGED <<current_user, uuid>>

\* parse_rss(url.to_string()) returns or panics; on return create_podcast
\* under url.to_string() and the shared tail. A panic unwinds the handler:
\* the guard is dropped and the client gets no response.
subscribe_fetched(t, resp) ==
    /\ task[t].pc = "fetch"
    /\ LET parsed == parse_rss(resp)
           key == UriToString(Unwrap(task[t].url))
       IN IF parsed.panic
          THEN /\ last' = SubscribeResponse(task[t].rss, task[t].logged_in, "PANIC", None,
                                            TRUE, None, FALSE)
               /\ UNCHANGED <<db, uuid>>
          ELSE /\ uuid < MaxUuid
               /\ LET made == create_podcast(db, key, parsed.val[1], parsed.val[2], uuid + 1)
                      r == SubscribeLoggedIn(made[1], task[t].logged_in, made[2].val)
                  IN /\ db' = r[1]
                     /\ last' = SubscribeResponse(task[t].rss, task[t].logged_in, r[2],
                                                  r[3], TRUE, Some(made[2].val),
                                                  Had(made[1], task[t].logged_in,
                                                      made[2].val))
               /\ uuid' = uuid + 1
    /\ mutex' = None
    /\ task' = [task EXCEPT ![t] = Idle]
    /\ UNCHANGED current_user

Next ==
    \/ \E name \in Names : add_user(name)
    \/ \E uid \in Uuids : login(uid)
    \/ user_status
    \/ \E t \in Tasks, rss \in RssStrings : subscribe_to_podcast(t, rss)
    \/ \E t \in Tasks : subscribe_locked(t)
    \/ \E t \in Tasks, resp \in Remote : subscribe_fetched(t, resp)

Spec == Init /\ [][Next]_vars

(* ------------------- the DB trait called directly -------------------- *)

\* Feed URL keys and titles a caller of the DB trait may pass.
StoreKeys == {FeedA, FeedB}
StoreTitles == Titles \cup {"Other Cast"}

\* The outcome of a DB call as the caller sees it: "Ok" or the Error kind.
Outcome(result) == IF result.ok THEN "Ok" ELSE result.err

db_get_user(id) ==
    /\ LET x == get_user(db, id)
       IN last' = [NoRequest EXCEPT !.handler = "DB::get_user", !.status = Outcome(x),
                                    !.arg = Some(id),
                                    !.created = IF x.ok THEN Some(x.val) ELSE None]
    /\ UNCHANGED <<current_user, db, uuid, mutex, task>>

db_create_user(name) ==
    /\ uuid < MaxUuid
    /\ LET r == create_user(db, name, uuid + 1)
       IN /\ db' = r[1]
          /\ last' = [NoRequest EXCEPT !.handler = "DB::create_user",
                                       !.status = Outcome(r[2]), !.name = name,
                                       !.created = Some(r[2].val)]
    /\ uuid' = uuid + 1
    /\ UNCHANGED <<current_user, mutex, task>>

db_get_podcast(rss) ==
    /\ LET x == get_podcast(db, rss)
       IN last' = [NoRequest EXCEPT !.handler = "DB::get_podcast", !.status = Outcome(x),
                                    !.rss = rss,
                                    !.p = IF x.ok THEN Some(x.val) ELSE None]
    /\ UNCHANGED <<current_user, db, uuid, mutex, task>>

db_create_podcast(rss, title, description) ==
    /\ uuid < MaxUuid
    /\ LET r == create_podcast(db, rss, title, description, uuid + 1)
       IN /\ db' = r[1]
          /\ last' = [NoRequest EXCEPT !.handler = "DB::create_podcast",
                                       !.status = Outcome(r[2]), !.rss = rss,
                                       !.name = title, !.p = Some(r[2].val)]
    /\ uuid' = uuid + 1
    /\ UNCHANGED <<current_user, mutex, task>>

db_subscribe(user, rss) ==
    /\ LET r == subscribe(db, user, rss)
       IN /\ db' = r[1]
          /\ last' = [NoRequest EXCEPT !.handler = "DB::subscribe",
                                       !.status = Outcome(r[2]), !.arg = Some(user),
                                       !.rss = rss,
                                       !.subs = IF r[2].ok THEN Some(r[2].val) ELSE None]
    /\ UNCHANGED <<current_user, uuid, mutex, task>>

StoreNext ==
    \/ \E id \in Uuids : db_get_user(id)
    \/ \E name \in Names : db_create_user(name)
    \/ \E rss \in StoreKeys : db_get_podcast(rss)
    \/ \E rss \in StoreKeys, t \in StoreTitles, d \in Descriptions :
          db_create_podcast(rss, t, d)
    \/ \E user \in Uuids, rss \in StoreKeys : db_subscribe(user, rss)

\* An InMemoryStore::new() driven through the DB trait alone.
StoreSpec == Init /\ [][StoreNext]_vars

(* ------------------------------ properties ---------------------------- *)

\* The step in which task t's subscribe request ends (answered or unwound).
SubscribeCompletes(t) ==
    /\ task[t].pc \in {"lock", "fetch"}
    /\ task'[t].pc = "idle"

NoDuplicates(seq) == \A i, j \in 1..Len(seq) : seq[i] = seq[j] => i = j

\* C1: a subscribe request that runs while the session is anonymous leaves
\* the Store (user map and podcast map) as it was, for every feed URL.
C1_AnonymousSubscribeKeepsStore ==
    [][\A t \in Tasks :
          (SubscribeCompletes(t) /\ current_user = None) => db' = db]_vars

\* C2: when a subscribe request has succeeded for a feed URL string and the
\* next request carries the same string and succeeds too, the second
\* performs no fetch and resolves to the identical podcast record.
C2_ResolveTwiceSameRecord ==
    [][\A t \in Tasks :
          (/\ SubscribeCompletes(t)
           /\ last.handler = "subscribe_to_podcast"
           /\ last.status = "CREATED"
           /\ task[t].rss = last.rss
           /\ last'.status = "CREATED")
          => (~last'.fetched /\ last'.p = last.p)]_vars

\* C3: a podcast record stored under a feed URL key stays under that key,
\* unchanged, in every later state.
C3_PodcastImmutable ==
    [][\A k \in DOMAIN db.podcasts :
          k \in DOMAIN db'.podcasts /\ db'.podcasts[k] = db.podcasts[k]]_vars

\* C4: every user's subscription list holds each feed URL at most once.
C4_NoDuplicateSubscriptions ==
    \A u \in DOMAIN db.users : NoDuplicates(db.users[u].subscribed)

\* C4 witness: the logged-in user subscribed again to a feed already in
\* their list and was answered with the list.
C4_Witness ==
    /\ last.handler = "subscribe_to_podcast"
    /\ last.status = "CREATED"
    /\ last.had
    /\ IsSome(current_user)
    /\ last.subs = Some(db.users[Unwrap(current_user)].subscribed)
    /\ Len(db.users[Unwrap(current_user)].subscribed) >= 1

\* C5: user u's subscription list changes only in the step that ends a
\* subscribe request, and only while u is the current user.
C5_OnlyOwnSubscribeChangesList ==
    [][\A u \in DOMAIN db.users :
          (u \notin DOMAIN db'.users
           \/ db'.users[u].subscribed # db.users[u].subscribed)
          => (/\ current_user = Some(u)
              /\ \E t \in Tasks : SubscribeCompletes(t)
              /\ last'.handler = "subscribe_to_podcast"
              /\ last'.caller = Some(u))]_vars

\* C5 witness: two users exist, the current one holds a subscription the
\* other does not.
C5_Witness ==
    /\ IsSome(current_user)
    /\ \E u, v \in DOMAIN db.users :
          /\ current_user = Some(u)
          /\ v # u
          /\ Len(db.users[u].subscribed) = 1
          /\ db.users[v].subscribed = <<>>
    /\ last.handler = "subscribe_to_podcast"
    /\ last.status = "CREATED"
    /\ ~last.had

\* C6: a subscribe request that reaches the session check while anonymous
\* is answered 400 (invalid/unauthenticated), never 404 (not found).
C6_AnonymousIsBadRequest ==
    (/\ last.handler = "subscribe_to_podcast"
     /\ last.caller = None
     /\ IsSome(last.p))
    => last.status = "BAD_REQUEST"

\* A feed the resolver cannot resolve: the fetch fails, the XML is malformed,
\* or rss > channel > title / description is missing.
Unresolvable(resp) ==
    \/ ~resp.transport
    \/ ~resp.wellformed
    \/ ~resp.rss
    \/ ~resp.channel
    \/ resp.title = None
    \/ resp.description = None

\* C7: when the feed of a subscribe request cannot be resolved, the Store
\* (every user record, the podcast map) and the session are as before the
\* request, the lock is free again and the task is ready for a new request.
C7_UnresolvableFeedChangesNothing ==
    [][\A t \in Tasks :
          (task[t].pc = "fetch" /\ SubscribeCompletes(t))
          => \A resp \in Remote :
                (Unresolvable(resp) /\ subscribe_fetched(t, resp))
                => (/\ db' = db
                    /\ current_user' = current_user
                    /\ mutex' = None
                    /\ task'[t] = Idle)]_vars

\* C7 witness: a logged-in user who holds a subscription asked for a feed
\* that could not be resolved; the list is still there and the lock is free.
C7_Witness ==
    /\ last.handler = "subscribe_to_podcast"
    /\ last.status = "PANIC"
    /\ IsSome(last.caller)
    /\ current_user = last.caller
    /\ Len(db.users[Unwrap(current_user)].subscribed) = 1
    /\ mutex = None

\* C8: a subscribe request whose fetch or parse failed is answered with an
\* error result; it is not cut off without a response.
C8_FailuresAreResults ==
    (/\ last.handler = "subscribe_to_podcast"
     /\ last.fetched
     /\ last.p = None)
    => last.status \in {"BAD_REQUEST", "INTERNAL_SERVER_ERROR"}

\* C9 as claimed: after login(id) with an id the Store does not hold, the
\* session is anonymous and failure was signalled.
C9_FailedLoginIsAnonymous ==
    (/\ last.handler = "login"
     /\ Unwrap(last.arg) \notin DOMAIN db.users)
    => (current_user = None /\ last.status = "NOT_EXTENDED")

\* C9 amended: login(id) with an id the Store does not hold signals failure
\* and leaves the session as it was (anonymous, or authenticated as the
\* previous user); the Store is unchanged.
C9_FailedLoginKeepsSession ==
    [][(/\ last' # last
        /\ last'.handler = "login"
        /\ Unwrap(last'.arg) \notin DOMAIN db.users)
       => (/\ last'.status = "NOT_EXTENDED"
           /\ current_user' = current_user
           /\ db' = db)]_vars

\* C9 witness: a login with an unknown id was refused while a user was
\* logged in, and that user still is.
C9_Witness ==
    /\ last.handler = "login"
    /\ last.status = "NOT_EXTENDED"
    /\ Unwrap(last.arg) \notin DOMAIN db.users
    /\ IsSome(current_user)

\* C10: login(id) with an id the Store holds makes id the current user,
\* whoever was before; the current user changes in no other step; a status
\* query reports the current user and logged_in exactly when one is set, and
\* changes neither the session nor the Store.
C10_LoginAndStatus ==
    [][/\ (/\ last' # last
           /\ last'.handler = "login"
           /\ Unwrap(last'.arg) \in DOMAIN db.users)
          => (/\ last'.status = "OK"
              /\ current_user' = last'.arg
              /\ db' = db)
       /\ (current_user' # current_user)
          => (/\ last'.handler = "login"
              /\ last'.status = "OK"
              /\ current_user' = last'.arg)
       /\ (last' # last /\ last'.handler = "user_status")
          => (/\ last'.user = current_user
              /\ last'.logged_in = IsSome(current_user)
              /\ current_user' = current_user
              /\ db' = db)]_vars

\* C10 witness: the first user logged in and subscribed, the second user
\* logged in after that, and a status query reports the second.
C10_Witness ==
    /\ last.handler = "user_status"
    /\ last.logged_in
    /\ last.user = Some(2)
    /\ current_user = Some(2)
    /\ {1, 2} \subseteq DOMAIN db.users
    /\ Len(db.users[1].subscribed) = 1

\* C11: add_user answers CREATED with a User that carries the given name, an
\* empty subscription list and an id no stored user had; get_user on that id
\* then returns that very record, and every user stored before is still
\* retrievable, unchanged.
C11_CreateUserFresh ==
    [][(last' # last /\ last'.handler = "add_user")
       => LET u == Unwrap(last'.created)
          IN /\ last'.status = "CREATED"
             /\ u.name = last'.name
             /\ u.subscribed = <<>>
             /\ u.id \notin DOMAIN db.users
             /\ get_user(db', u.id) = Ok(u)
             /\ \A v \in DOMAIN db.users : get_user(db', v) = get_user(db, v)]_vars

\* C11 witness: a second user was created under the name the first one has,
\* and both are stored.
C11_Witness ==
    /\ last.handler = "add_user"
    /\ \E v \in DOMAIN db.users :
          /\ v # Unwrap(last.created).id
          /\ db.users[v].name = last.name
    /\ get_user(db, Unwrap(last.created).id) = Ok(Unwrap(last.created))

\* C12: DB::subscribe(user, rss) returns NotFound and leaves the Store as it
\* was when the podcast is absent or the user is absent; otherwise it appends
\* rss to that user's list unless the list holds it, touches no other user
\* and no podcast, and returns the user's list as stored after the call.
C12_StoreSubscribe ==
    [][(last' # last /\ last'.handler = "DB::subscribe")
       => LET u == Unwrap(last'.arg)
              k == last'.rss
          IN IF k \notin DOMAIN db.podcasts \/ u \notin DOMAIN db.users
             THEN last'.status = "NotFound" /\ last'.subs = None /\ db' = db
             ELSE /\ last'.status = "Ok"
                  /\ db'.podcasts = db.podcasts
                  /\ DOMAIN db'.users = DOMAIN db.users
                  /\ \A v \in DOMAIN db.users \ {u} : db'.users[v] = db.users[v]
                  /\ db'.users[u] =
                        [db.users[u] EXCEPT !.subscribed =
                            IF Contains(@, k) THEN @ ELSE Append(@, k)]
                  /\ last'.subs = Some(db'.users[u].subscribed)]_vars

\* C12 witness: with two users stored, one of them was subscribed to a
\* stored podcast: its list is exactly that feed and the other's is empty.
C12_Witness ==
    /\ last.handler = "DB::subscribe"
    /\ last.status = "Ok"
    /\ last.subs = Some(<<last.rss>>)
    /\ \E v \in DOMAIN db.users :
          v # Unwrap(last.arg) /\ db.users[v].subscribed = <<>>

\* C13: a subscribe request holds the lock from get_podcast to its end, the
\* fetch included. While task t fetches, t holds the lock, the session is
\* the one t read and the submitted string is still unknown to the Store;
\* and until t ends, no step changes the session or the Store and the only
\* response given is the rejection of a string that is no URI, which never
\* takes the lock. So each request acts as if run alone at the moment it
\* took the lock.
C13_LockSerializes ==
    [][\A t \in Tasks :
          /\ (task'[t].pc = "fetch")
             => (/\ mutex' = Some(t)
                 /\ task'[t].logged_in = current_user'
                 /\ task'[t].rss \notin DOMAIN db'.podcasts)
          /\ (mutex = Some(t) /\ ~SubscribeCompletes(t))
             => (/\ db' = db
                 /\ current_user' = current_user
                 /\ mutex' = mutex
                 /\ (last' # last)
                    => (/\ last'.handler = "subscribe_to_podcast"
                        /\ last'.status = "BAD_REQUEST"
                        /\ ~UriFromStr(last'.rss).ok))]_vars

\* C13 witness: one task is fetching for a logged-in user and holds the
\* lock, the other has a valid request waiting for the lock, and a user the
\* session could be switched to exists.
C13_Witness ==
    \E t, w \in Tasks :
       /\ task[t].pc = "fetch"
       /\ mutex = Some(t)
       /\ IsSome(task[t].logged_in)
       /\ task[w].pc = "lock"
       /\ \E v \in DOMAIN db.users : Some(v) # current_user

\* C14: when a subscribe request ends its fetch by creating the podcast
\* record while another request for the same string waits for the lock,
\* the waiting request then finds that record under the string it carries
\* (so it neither fetches nor creates).
C14_OneFetchPerUnseenFeed ==
    [][\A t, w \in Tasks :
          (/\ t # w
           /\ task[t].pc = "fetch"
           /\ task[w].pc = "lock"
           /\ task[w].rss = task[t].rss
           /\ SubscribeCompletes(t)
           /\ db'.podcasts # db.podcasts)
          => get_podcast(db', task'[w].rss).ok]_vars

\* C15: a session that is authenticated stays authenticated in every later
\* state, and the current user changes only in a step that answers
\* login(id) with OK, to that id; add_user, user_status, subscribe and
\* refused logins leave the session as it was.
C15_NoLogout ==
    [][/\ IsSome(current_user) => IsSome(current_user')
       /\ (current_user' # current_user)
          => (/\ last'.handler = "login"
              /\ last'.status = "OK"
              /\ current_user' = last'.arg)
       /\ (last' # last /\ ~(last'.handler = "login" /\ last'.status = "OK"))
          => current_user' = current_user]_vars

\* C15 witness: a user was created while another user was logged in, after
\* a subscribe request had fetched a feed, and the session is still the
\* other user's.
C15_Witness ==
    /\ last.handler = "add_user"
    /\ IsSome(current_user)
    /\ Some(Unwrap(last.created).id) # current_user
    /\ db.podcasts # <<>>

IsPrefix(a, b) == Len(a) <= Len(b) /\ SubSeq(b, 1, Len(a)) = a

\* C16: every user of the Store is still there after any step, with the
\* same id and name, and the subscription list it had is a prefix of the one
\* it has then. Step by step this gives the same for every later state.
C16_UsersAppendOnly ==
    [][\A v \in DOMAIN db.users :
          /\ v \in DOMAIN db'.users
          /\ db'.users[v].id = db.users[v].id
          /\ db'.users[v].name = db.users[v].name
          /\ IsPrefix(db.users[v].subscribed, db'.users[v].subscribed)]_vars

\* C16 witness: a subscribe request has just given a user a second entry,
\* behind the first.
C16_Witness ==
    /\ last.handler = "subscribe_to_podcast"
    /\ last.status = "CREATED"
    /\ ~last.had
    /\ \E v \in DOMAIN db.users :
          /\ Some(v) = last.caller
          /\ Len(db.users[v].subscribed) = 2
          /\ last.subs = Some(db.users[v].subscribed)

\* C17: DB::create_podcast(rss, title, description) on a key that already
\* holds a record answers Ok and replaces it: get_podcast(rss) then returns
\* the record of this call, with the given title, under an id that no record
\* of the Store had; the set of keys is the same, the records under other
\* keys and all users are as they were.
C17_CreatePodcastOverwrites ==
    [][(/\ last' # last
        /\ last'.handler = "DB::create_podcast"
        /\ last'.rss \in DOMAIN db.podcasts)
       => LET k == last'.rss
              p == Unwrap(last'.p)
          IN /\ last'.status = "Ok"
             /\ get_podcast(db', k) = Ok(p)
             /\ p.rss = k
             /\ p.name = last'.name
             /\ p.description \in Descriptions
             /\ \A j \in DOMAIN db.podcasts : p.id # db.podcasts[j].id
             /\ DOMAIN db'.podcasts = DOMAIN db.podcasts
             /\ Cardinality(DOMAIN db'.podcasts) = Cardinality(DOMAIN db.podcasts)
             /\ \A j \in DOMAIN db.podcasts \ {k} : db'.podcasts[j] = db.podcasts[j]
             /\ db'.users = db.users]_vars

\* C17 witness: three ids were drawn, one for a user and two for records
\* under the one key the Store holds; the last call replaced the earlier
\* record.
C17_Witness ==
    /\ last.handler = "DB::create_podcast"
    /\ uuid = 3
    /\ Unwrap(last.p).id = 3
    /\ Cardinality(DOMAIN db.users) = 1
    /\ DOMAIN db.podcasts = {last.rss}

\* C18: a subscribe request answered CREATED returns a list that contains
\* the submitted string, and get_podcast on the submitted string then finds
\* the podcast; when it repeats the request answered just before (same
\* string, same user) the list returned is the same.
C18_SubscribedUnderSubmittedString ==
    [][(/\ last' # last
        /\ last'.handler = "subscribe_to_podcast"
        /\ last'.status = "CREATED")
       => /\ Contains(Unwrap(last'.subs), last'.rss)
          /\ get_podcast(db', last'.rss).ok
          /\ (/\ last.handler = "subscribe_to_podcast"
              /\ last.status = "CREATED"
              /\ last.rss = last'.rss
              /\ last.caller = last'.caller)
             => last'.subs = last.subs]_vars

\* C19: in every reachable state each entry of each user's subscription list
\* is a key of the podcast map, the record under a key has that key as its
\* rss, and the user under a key has that key as its id.
C19_ReferentialIntegrity ==
    /\ \A v \in DOMAIN db.users :
          /\ db.users[v].id = v
          /\ \A i \in 1..Len(db.users[v].subscribed) :
                db.users[v].subscribed[i] \in DOMAIN db.podcasts
    /\ \A k \in DOMAIN db.podcasts : db.podcasts[k].rss = k

\* C19 witness: a user is subscribed to two podcasts, one of them created
\* under the reprinted form of the submitted string.
C19_Witness ==
    \E v \in DOMAIN db.users :
       /\ Len(db.users[v].subscribed) = 2
       /\ Contains(db.users[v].subscribed, UriToString(UriFromStr(FeedB).val))
       /\ FeedB \notin DOMAIN db.podcasts

\* C20: in every reachable state the current user, when set, is the id of a
\* user in the Store; and a subscribe request that read a logged-in session
\* and was answered (its feed known or resolved) was answered CREATED for a
\* user of the Store, never with the BAD_REQUEST of a failed DB::subscribe.
C20_SessionValid ==
    /\ IsSome(current_user) => Unwrap(current_user) \in DOMAIN db.users
    /\ (/\ last.handler = "subscribe_to_podcast"
        /\ IsSome(last.caller)
        /\ last.status # "PANIC")
       => (/\ last.status = "CREATED"
           /\ Unwrap(last.caller) \in DOMAIN db.users)

\* C20 witness: a logged-in user's subscribe request fetched a feed and was
\* answered CREATED, in a Store that also holds a user who is not logged in.
C20_Witness ==
    /\ last.handler = "subscribe_to_podcast"
    /\ last.fetched
    /\ last.status = "CREATED"
    /\ last.caller = current_user
    /\ Cardinality(DOMAIN db.users) = 2

====
